---- MODULE Spec2Model ----
(***************************************************************************)
(* A model of rust-pocket (src/src/lib.rs): the Pocket client facade, its  *)
(* request builders and the decoders of its response records, run over the *)
(* rustc_serialize JSON decoder (a stack of JSON values) and a transport    *)
(* that answers every POST with a failure or with headers and a body.       *)
(*                                                                         *)
(* Strings are sequences of one-character strings, so that parsing a digit *)
(* string and percent-encoding a query value are computed, not assumed.    *)
(* Numbers stay far below u64::MAX; the u8 and u16 widths are kept.        *)
(***************************************************************************)
EXTENDS Integers, Sequences, FiniteSets, TLC

(***************************************************************************)
(* Bounds of the model.                                                    *)
(***************************************************************************)
MaxSetterCalls == 2

(***************************************************************************)
(* Option<T>: None is the empty sequence, Some(x) the one-element sequence. *)
(***************************************************************************)
None == <<>>
Some(x) == <<x>>
IsSome(o) == Len(o) = 1
Unwrapped(o) == o[1]

\* The outcome e of a call handed to what follows it, F.
Bind(e, F(_)) == F(e)

(***************************************************************************)
(* JSON values (rustc_serialize::json::Json).  An object is the sequence   *)
(* of its <<key, value>> entries in enumeration order.                     *)
(***************************************************************************)
JNull == [t |-> "null"]
JBool(b) == [t |-> "bool", b |-> b]
JNum(n) == [t |-> "num", n |-> n]
JF64 == [t |-> "f64"]
JStr(s) == [t |-> "str", s |-> s]
JArr(a) == [t |-> "arr", a |-> a]
JObj(m) == [t |-> "obj", m |-> m]

Keys(m) == {m[i][1] : i \in 1..Len(m)}
HasKey(m, k) == \E i \in 1..Len(m) : m[i][1] = k
Lookup(m, k) == m[CHOOSE i \in 1..Len(m) : m[i][1] = k][2]
RemoveKey(m, k) == SelectSeq(m, LAMBDA e : e[1] # k)

RECURSIVE Reverse(_)
Reverse(s) == IF s = <<>> THEN <<>> ELSE Append(Reverse(Tail(s)), Head(s))

(***************************************************************************)
(* The decoder's stack: the top is the last element.                       *)
(***************************************************************************)
Top(st) == st[Len(st)]
Pop(st) == SubSeq(st, 1, Len(st) - 1)

Ok(v, st) == [k |-> "ok", v |-> v, st |-> st]
Err(e, st) == [k |-> "err", e |-> e, st |-> st]
Panic(why) == [k |-> "panic", why |-> why]
ExpectedError(what) == [kind |-> "ExpectedError", what |-> what]
MissingFieldError(name) == [kind |-> "MissingFieldError", field |-> name]

(***************************************************************************)
(* Integer widths.                                                         *)
(***************************************************************************)
U8Max == 255
U16Max == 65535
WideMax == 2147483647

DigitVal ==
  ("0" :> 0) @@ ("1" :> 1) @@ ("2" :> 2) @@ ("3" :> 3) @@ ("4" :> 4) @@
  ("5" :> 5) @@ ("6" :> 6) @@ ("7" :> 7) @@ ("8" :> 8) @@ ("9" :> 9)

\* str::parse for an unsigned integer of maximum max: -1 stands for Err.
RECURSIVE ParseDigits(_, _, _)
ParseDigits(s, acc, max) ==
  IF s = <<>> THEN acc
  ELSE IF Head(s) \notin DOMAIN DigitVal THEN -1
  ELSE LET next == acc * 10 + DigitVal[Head(s)]
       IN IF next > max THEN -1 ELSE ParseDigits(Tail(s), next, max)

ParseUnsigned(s, max) ==
  IF s = <<>> THEN -1
  ELSE IF Len(s) = 1 /\ Head(s) \in {"+", "-"} THEN -1
  ELSE IF Head(s) = "+" THEN ParseDigits(Tail(s), 0, max)
  ELSE ParseDigits(s, 0, max)

\* json::Decoder::read_u8 / read_u16 / read_u64 / read_usize
read_primitive(st, max) ==
  IF st = <<>> THEN Panic("pop")
  ELSE LET j == Top(st)
           rest == Pop(st)
       IN CASE j.t = "num" ->
                 IF j.n >= 0 /\ j.n <= max THEN Ok(j.n, rest)
                 ELSE Err(ExpectedError("Number"), rest)
            [] j.t = "f64" -> Err(ExpectedError("Integer"), rest)
            [] j.t = "str" ->
                 Bind(ParseUnsigned(j.s, max),
                      LAMBDA p : IF p >= 0 THEN Ok(p, rest)
                                 ELSE Err(ExpectedError("Number"), rest))
            [] OTHER -> Err(ExpectedError("Number"), rest)

read_u8(st) == read_primitive(st, U8Max)
read_u16(st) == read_primitive(st, U16Max)
read_u64(st) == read_primitive(st, WideMax)
read_usize(st) == read_primitive(st, WideMax)

read_str(st) ==
  IF st = <<>> THEN Panic("pop")
  ELSE IF Top(st).t = "str" THEN Ok(Top(st).s, Pop(st))
  ELSE Err(ExpectedError("String"), Pop(st))

\* json::Decoder::read_bool
read_bool(st) ==
  IF st = <<>> THEN Panic("pop")
  ELSE IF Top(st).t = "bool" THEN Ok(Top(st).b, Pop(st))
  ELSE Err(ExpectedError("Boolean"), Pop(st))

\* d.read_u8().map(|v| v != 0)
BoolFromU8(st) ==
  Bind(read_u8(st), LAMBDA r : IF r.k = "ok" THEN Ok(r.v # 0, r.st) ELSE r)

\* d.read_u64().map(|v| Timespec::new(v as i64, 0))
TimespecFromU64(st) ==
  Bind(read_u64(st),
       LAMBDA r : IF r.k = "ok" THEN Ok([sec |-> r.v, nsec |-> 0], r.st) ELSE r)

PocketItemHasOf(v) == CASE v = 0 -> "No" [] v = 1 -> "Yes" [] v = 2 -> "Is"

PocketItemHas_decode(st) ==
  Bind(read_u8(st),
       LAMBDA r : IF r.k # "ok" THEN r
                  ELSE IF r.v \in 0..2 THEN Ok(PocketItemHasOf(r.v), r.st)
                  ELSE Panic("unreachable"))

PocketItemStatusOf(v) ==
  CASE v = 0 -> "Normal" [] v = 1 -> "Archived" [] v = 2 -> "Deleted"

PocketItemStatus_decode(st) ==
  Bind(read_u8(st),
       LAMBDA r : IF r.k # "ok" THEN r
                  ELSE IF r.v \in 0..2 THEN Ok(PocketItemStatusOf(r.v), r.st)
                  ELSE Panic("unreachable"))


(***************************************************************************)
(* Field tables: <<field of the record, name on the wire, decoder>> in the *)
(* order in which decode reads them.                                       *)
(***************************************************************************)
ItemImageFields ==
  << <<"item_id", "item_id", "u64">>, <<"image_id", "image_id", "u64">>,
     <<"src", "src", "str">>, <<"width", "width", "u16">>,
     <<"height", "height", "u16">>, <<"caption", "caption", "str">>,
     <<"credit", "credit", "str">> >>

ItemVideoFields ==
  << <<"item_id", "item_id", "u64">>, <<"video_id", "video_id", "u64">>,
     <<"src", "src", "str">>, <<"width", "width", "u16">>,
     <<"height", "height", "u16">>, <<"length", "length", "opt_usize">>,
     <<"vid", "vid", "str">>, <<"vtype", "type", "u16">> >>

PocketAddedItemFields ==
  << <<"item_id", "item_id", "u64">>,
     <<"extended_item_id", "extended_item_id", "u64">>,
     <<"given_url", "given_url", "str">>,
     <<"normal_url", "normal_url", "str">>,
     <<"content_length", "content_length", "usize">>,
     <<"word_count", "word_count", "usize">>,
     <<"encoding", "encoding", "str">>,
     <<"mime_type", "mime_type", "str">>,
     <<"lang", "lang", "str">>,
     <<"title", "title", "str">>,
     <<"excerpt", "excerpt", "str">>,
     <<"date_published", "date_published", "str">>,
     <<"date_resolved", "date_resolved", "str">>,
     <<"resolved_id", "resolved_id", "u64">>,
     <<"resolved_url", "resolved_url", "str">>,
     <<"resolved_normal_url", "resolved_normal_url", "str">>,
     <<"login_required", "login_required", "bool">>,
     <<"response_code", "response_code", "u16">>,
     <<"used_fallback", "used_fallback", "bool">>,
     <<"domain_id", "domain_id", "u64">>,
     <<"origin_domain_id", "origin_domain_id", "u64">>,
     <<"innerdomain_redirect", "innerdomain_redirect", "bool">>,
     <<"is_index", "is_index", "bool">>,
     <<"is_article", "is_article", "bool">>,
     <<"has_image", "has_image", "has">>,
     <<"has_video", "has_video", "has">>,
     <<"videos", "videos", "seq_video">>,
     <<"images", "images", "seq_image">> >>

PocketItemFields ==
  << <<"item_id", "item_id", "u64">>,
     <<"given_url", "given_url", "str">>,
     <<"given_title", "given_title", "str">>,
     <<"word_count", "word_count", "usize">>,
     <<"excerpt", "excerpt", "str">>,
     <<"time_added", "time_added", "timespec">>,
     <<"time_read", "time_read", "timespec">>,
     <<"time_updated", "time_updated", "timespec">>,
     <<"time_favorited", "time_favorited", "timespec">>,
     <<"favorite", "favorite", "bool">>,
     <<"is_index", "is_index", "bool">>,
     <<"is_article", "is_article", "bool">>,
     <<"has_image", "has_image", "has">>,
     <<"has_video", "has_video", "has">>,
     <<"resolved_id", "resolved_id", "u64">>,
     <<"resolved_title", "resolved_title", "str">>,
     <<"resolved_url", "resolved_url", "str">>,
     <<"sort_id", "sort_id", "usize">>,
     <<"status", "status", "status">>,
     <<"videos", "videos", "optmap_video">>,
     <<"images", "images", "optmap_image">> >>

PocketGetResponseFields ==
  << <<"list", "list", "map_item">>, <<"status", "status", "u16">>,
     <<"complete", "complete", "bool">>, <<"error", "error", "opt_str">>,
     <<"since", "since", "timespec">> >>

PocketAddResponseFields ==
  << <<"item", "item", "added_item">>, <<"status", "status", "u16">> >>

PocketOAuthResponseFields ==
  << <<"code", "code", "str">>, <<"state", "state", "opt_str">> >>

PocketAuthorizeResponseFields ==
  << <<"access_token", "access_token", "str">>,
     <<"username", "username", "str">> >>

PocketSendResponseFields ==
  << <<"status", "status", "u16">>,
     <<"action_results", "action_results", "seq_bool">> >>

(***************************************************************************)
(* json::Decoder over the stack.                                           *)
(***************************************************************************)
RECURSIVE ReadKind(_, _)
RECURSIVE read_struct_field(_, _, _)
RECURSIVE ReadFields(_, _, _, _)
RECURSIVE read_struct(_, _)
RECURSIVE FlatMapElts(_, _, _, _)
RECURSIVE FlatMapEntries(_, _, _)
RECURSIVE ReadBools(_, _, _)

\* read_map pushes, for each entry in enumeration order, the value and then
\* the key (as a Json::String whose text is the key).
MapPushes(m) ==
  [i \in 1..(2 * Len(m)) |->
     IF i % 2 = 1 THEN m[(i + 1) \div 2][2] ELSE JStr(<<m[i \div 2][1]>>)]

\* (0..s).flat_map(|i| d.read_seq_elt(i, Decodable::decode)).collect(), and
\* the same over read_map_elt_val: an element whose decode is an Err yields
\* no item.
FlatMapElts(fields, n, st, acc) ==
  IF n = 0 THEN Ok(acc, st)
  ELSE Bind(read_struct(fields, st),
            LAMBDA r :
              IF r.k = "panic" THEN r
              ELSE FlatMapElts(fields, n - 1, r.st,
                               IF r.k = "ok" THEN Append(acc, r.v) ELSE acc))

\* d.read_seq(|d, s| Ok((0..s).flat_map(..).collect()))
ReadSeqOf(fields, st) ==
  IF st = <<>> THEN Panic("pop")
  ELSE IF Top(st).t # "arr" THEN Err(ExpectedError("Array"), Pop(st))
  ELSE FlatMapElts(fields, Len(Top(st).a), Pop(st) \o Reverse(Top(st).a), <<>>)

\* d.read_map(|d, s| Ok((0..s).flat_map(|i| d.read_map_elt_val(i, ..)).collect()))
ReadMapValsOf(fields, st) ==
  IF st = <<>> THEN Panic("pop")
  ELSE IF Top(st).t # "obj" THEN Err(ExpectedError("Object"), Pop(st))
  ELSE FlatMapElts(fields, Len(Top(st).m), Pop(st) \o MapPushes(Top(st).m), <<>>)

\* d.read_option(|d, b| if b { d.read_map(..).map(Some) } else { Ok(None) })
ReadOptionMapOf(fields, st) ==
  IF st = <<>> THEN Panic("pop")
  ELSE IF Top(st) = JNull THEN Ok(None, Pop(st))
  ELSE Bind(ReadMapValsOf(fields, st),
            LAMBDA r : IF r.k = "ok" THEN Ok(Some(r.v), r.st) ELSE r)

ReadOptionUsize(st) ==
  IF st = <<>> THEN Panic("pop")
  ELSE IF Top(st) = JNull THEN Ok(None, Pop(st))
  ELSE Bind(read_usize(st),
            LAMBDA r : IF r.k = "ok" THEN Ok(Some(r.v), r.st) ELSE r)

ReadOptionStr(st) ==
  IF st = <<>> THEN Panic("pop")
  ELSE IF Top(st) = JNull THEN Ok(None, Pop(st))
  ELSE Bind(read_str(st),
            LAMBDA r : IF r.k = "ok" THEN Ok(Some(r.v), r.st) ELSE r)

\* The list of PocketGetResponse: read_map_elt_key(read_str), and then
\* read_map_elt_val(PocketItem::decode), under flat_map.
FlatMapEntries(n, st, acc) ==
  IF n = 0 THEN Ok(acc, st)
  ELSE Bind(Bind(read_str(st),
                 LAMBDA key : IF key.k = "ok"
                              THEN read_struct(PocketItemFields, key.st)
                              ELSE key),
            LAMBDA r :
              IF r.k = "panic" THEN r
              ELSE FlatMapEntries(n - 1, r.st,
                                  IF r.k = "ok" THEN Append(acc, r.v) ELSE acc))

\* The list of PocketGetResponse, were read_map to refuse an object without
\* entries.
ReadItemList_refusing_empty(st) ==
  IF st = <<>> THEN Panic("pop")
  ELSE IF Top(st).t # "obj" \/ Top(st).m = <<>>
  THEN Err(ExpectedError("Object"), Pop(st))
  ELSE FlatMapEntries(Len(Top(st).m), Pop(st) \o MapPushes(Top(st).m), <<>>)

ReadItemList(st) ==
  IF st = <<>> THEN Panic("pop")
  ELSE IF Top(st).t # "obj" THEN Err(ExpectedError("Object"), Pop(st))
  ELSE FlatMapEntries(Len(Top(st).m), Pop(st) \o MapPushes(Top(st).m), <<>>)

\* Vec<bool>::decode: read_seq, and each element with read_seq_elt(read_bool);
\* the first element that is an Err ends the decode with it.
ReadBools(n, st, acc) ==
  IF n = 0 THEN Ok(acc, st)
  ELSE Bind(read_bool(st),
            LAMBDA r : IF r.k = "ok"
                       THEN ReadBools(n - 1, r.st, Append(acc, r.v))
                       ELSE r)

ReadSeqBool(st) ==
  IF st = <<>> THEN Panic("pop")
  ELSE IF Top(st).t # "arr" THEN Err(ExpectedError("Array"), Pop(st))
  ELSE ReadBools(Len(Top(st).a), Pop(st) \o Reverse(Top(st).a), <<>>)

ReadKind(kind, st) ==
  CASE kind = "u8" -> read_u8(st)
    [] kind = "u16" -> read_u16(st)
    [] kind = "u64" -> read_u64(st)
    [] kind = "usize" -> read_usize(st)
    [] kind = "str" -> read_str(st)
    [] kind = "bool" -> BoolFromU8(st)
    [] kind = "timespec" -> TimespecFromU64(st)
    [] kind = "has" -> PocketItemHas_decode(st)
    [] kind = "status" -> PocketItemStatus_decode(st)
    [] kind = "opt_usize" -> ReadOptionUsize(st)
    [] kind = "opt_str" -> ReadOptionStr(st)
    [] kind = "seq_video" -> ReadSeqOf(ItemVideoFields, st)
    [] kind = "seq_image" -> ReadSeqOf(ItemImageFields, st)
    [] kind = "optmap_video" -> ReadOptionMapOf(ItemVideoFields, st)
    [] kind = "optmap_image" -> ReadOptionMapOf(ItemImageFields, st)
    [] kind = "map_item" -> ReadItemList(st)
    [] kind = "added_item" -> read_struct(PocketAddedItemFields, st)
    [] kind = "seq_bool" -> ReadSeqBool(st)

\* json::Decoder::read_struct_field: the object on top of the stack gives up
\* the named entry; a missing entry is read as null, and an error on it is
\* a MissingFieldError.
read_struct_field(name, kind, st) ==
  IF st = <<>> THEN Panic("pop")
  ELSE IF Top(st).t # "obj" THEN Err(ExpectedError("Object"), Pop(st))
  ELSE Bind(ReadKind(kind, Append(Pop(st), IF HasKey(Top(st).m, name)
                                            THEN Lookup(Top(st).m, name)
                                            ELSE JNull)),
            LAMBDA r :
              CASE r.k = "panic" -> r
                [] r.k = "ok" ->
                     Ok(r.v, Append(r.st, JObj(RemoveKey(Top(st).m, name))))
                [] OTHER -> IF HasKey(Top(st).m, name) THEN r
                            ELSE Err(MissingFieldError(name), r.st))

ReadFields(fields, i, st, acc) ==
  IF i > Len(fields) THEN Ok(acc, st)
  ELSE Bind(read_struct_field(fields[i][2], fields[i][3], st),
            LAMBDA r :
              IF r.k = "ok"
              THEN ReadFields(fields, i + 1, r.st, acc @@ (fields[i][1] :> r.v))
              ELSE r)

\* json::Decoder::read_struct: the fields, then the object is popped.
read_struct(fields, st) ==
  Bind(ReadFields(fields, 1, st, <<>>),
       LAMBDA r : IF r.k # "ok" THEN r
                  ELSE IF r.st = <<>> THEN Panic("pop")
                  ELSE Ok(r.v, Pop(r.st)))

ItemImage_decode(st) == read_struct(ItemImageFields, st)
ItemVideo_decode(st) == read_struct(ItemVideoFields, st)
PocketAddedItem_decode(st) == read_struct(PocketAddedItemFields, st)
PocketItem_decode(st) == read_struct(PocketItemFields, st)
PocketGetResponse_decode(st) == read_struct(PocketGetResponseFields, st)
PocketAddResponse_decode(st) == read_struct(PocketAddResponseFields, st)
PocketOAuthResponse_decode(st) == read_struct(PocketOAuthResponseFields, st)
PocketAuthorizeResponse_decode(st) == read_struct(PocketAuthorizeResponseFields, st)
PocketSendResponse_decode(st) == read_struct(PocketSendResponseFields, st)

(***************************************************************************)
(* Outcomes of an operation: PocketResult<T>, or a panic.                  *)
(***************************************************************************)
OkResult(v) == [kind |-> "Ok", v |-> v]
ErrHttp == [kind |-> "Err", variant |-> "Http"]
ErrIo == [kind |-> "Err", variant |-> "Io"]
ErrJson(e) == [kind |-> "Err", variant |-> "Json", err |-> e]
ErrProto(c, m) == [kind |-> "Err", variant |-> "Proto", code |-> c, msg |-> m]
Panicked(why) == [kind |-> "Panic", why |-> why]
ParseError == [kind |-> "ParseError"]

(***************************************************************************)
(* The transport's answers.  A header value is visible ASCII text or not;  *)
(* a body is text that parses to a JSON value, or text that does not.      *)
(***************************************************************************)
Header(s) == [ascii |-> TRUE, s |-> s]
OpaqueHeader == [ascii |-> FALSE]
JsonText(j) == [text |-> "json", json |-> j]
BadText == [text |-> "bad"]
EmptyText == [text |-> "empty"]
SendFailure == [sent |-> FALSE]
Response(c, e, readOk, body) ==
  [sent |-> TRUE, XErrorCode |-> c, XError |-> e, readOk |-> readOk, body |-> body]

UnknownProtocolError ==
  <<"u", "n", "k", "n", "o", "w", "n", " ", "p", "r", "o", "t", "o", "c", "o", "l",
    " ", "e", "r", "r", "o", "r">>

DecodeAs(Resp, st) ==
  CASE Resp = "PocketOAuthResponse" -> PocketOAuthResponse_decode(st)
    [] Resp = "PocketAuthorizeResponse" -> PocketAuthorizeResponse_decode(st)
    [] Resp = "PocketAddResponse" -> PocketAddResponse_decode(st)
    [] Resp = "PocketGetResponse" -> PocketGetResponse_decode(st)

\* json::decode::<Resp>(&*s): Json::from_str, Decoder::new, Decodable::decode
json_decode(Resp, body) ==
  IF body.text # "json" THEN ErrJson(ParseError)
  ELSE Bind(DecodeAs(Resp, <<body.json>>),
            LAMBDA r : CASE r.k = "ok" -> OkResult(r.v)
                         [] r.k = "err" -> ErrJson(r.e)
                         [] OTHER -> Panicked(r.why))

\* Pocket::request: one POST of data to url, answered by resp.
request(url, data, resp, Resp) ==
  [posts |-> << [url |-> url, data |-> data] >>,
   out |->
     IF ~resp.sent THEN ErrHttp
     ELSE IF resp.XErrorCode = None
     THEN IF ~resp.readOk THEN ErrIo ELSE json_decode(Resp, resp.body)
     ELSE IF ~Unwrapped(resp.XErrorCode).ascii THEN Panicked("to_str")
     ELSE Bind(ParseUnsigned(Unwrapped(resp.XErrorCode).s, U16Max),
               LAMBDA n :
                 IF n < 0 THEN Panicked("parse")
                 ELSE IF resp.XError = None THEN ErrProto(n, UnknownProtocolError)
                 ELSE IF ~Unwrapped(resp.XError).ascii THEN Panicked("to_str")
                 ELSE ErrProto(n, Unwrapped(resp.XError).s))]

(***************************************************************************)
(* json::encode of the request structures: every field is emitted, in the  *)
(* order of its declaration, and Option::None is emitted as null.          *)
(***************************************************************************)
EncodeOptionStr(o) == IF IsSome(o) THEN JStr(Unwrapped(o)) ELSE JNull

RedirectUri ==
  <<"r", "u", "s", "t", "a", "p", "i", ":", "f", "i", "n", "i", "s", "h", "a", "u",
    "t", "h">>

PocketOAuthRequest(consumer_key_, redirect_uri, state_) ==
  JObj(<< <<"consumer_key", JStr(consumer_key_)>>,
          <<"redirect_uri", JStr(redirect_uri)>>,
          <<"state", EncodeOptionStr(state_)>> >>)

PocketAuthorizeRequest(consumer_key_, code_) ==
  JObj(<< <<"consumer_key", JStr(consumer_key_)>>, <<"code", JStr(code_)>> >>)

PocketAddRequest(consumer_key_, access_token_, url, title, tags, tweet_id) ==
  JObj(<< <<"consumer_key", JStr(consumer_key_)>>,
          <<"access_token", JStr(access_token_)>>,
          <<"url", JStr(url)>>,
          <<"title", EncodeOptionStr(title)>>,
          <<"tags", EncodeOptionStr(tags)>>,
          <<"tweet_id", EncodeOptionStr(tweet_id)>> >>)

(***************************************************************************)
(* url::form_urlencoded, as set_query_from_pairs applies it to a value.    *)
(***************************************************************************)
Escapes ==
  (":" :> <<"%", "3", "A">>) @@ ("&" :> <<"%", "2", "6">>) @@
  ("=" :> <<"%", "3", "D">>) @@ ("%" :> <<"%", "2", "5">>) @@
  ("+" :> <<"%", "2", "B">>)

RECURSIVE FormEncode(_)
FormEncode(s) ==
  IF s = <<>> THEN <<>>
  ELSE (CASE Head(s) = " " -> <<"+">>
          [] Head(s) \in DOMAIN Escapes -> Escapes[Head(s)]
          [] OTHER -> <<Head(s)>>) \o FormEncode(Tail(s))

RECURSIVE FormDecode(_)
FormDecode(s) ==
  IF s = <<>> THEN <<>>
  ELSE IF Head(s) = "+" THEN <<" ">> \o FormDecode(Tail(s))
  ELSE IF Head(s) = "%" /\ Len(s) >= 3
       /\ \E c \in DOMAIN Escapes : Escapes[c] = SubSeq(s, 1, 3)
  THEN <<CHOOSE c \in DOMAIN Escapes : Escapes[c] = SubSeq(s, 1, 3)>>
       \o FormDecode(SubSeq(s, 4, Len(s)))
  ELSE <<Head(s)>> \o FormDecode(Tail(s))

set_query_from_pairs(base, pairs) ==
  [base |-> base,
   query |-> [i \in 1..Len(pairs) |-> <<pairs[i][1], FormEncode(pairs[i][2])>>]]

QueryValue(url, name) ==
  FormDecode(url.query[CHOOSE i \in 1..Len(url.query) : url.query[i][1] = name][2])

(***************************************************************************)
(* The operations of Pocket.  self is the session                          *)
(* [consumer_key, access_token, code]; each operation yields the session   *)
(* after it, its outcome and the POSTs it made.                            *)
(***************************************************************************)
new(consumer_key_, access_token_) ==
  [consumer_key |-> consumer_key_, access_token |-> access_token_, code |-> None]

\* get_auth_url, were it to keep a pending code instead of replacing it.
get_auth_url_keeping_code(self, resp) ==
  Bind(request("https://getpocket.com/v3/oauth/request",
               PocketOAuthRequest(self.consumer_key, RedirectUri, None), resp,
               "PocketOAuthResponse"),
       LAMBDA r :
         IF r.out.kind = "Ok"
         THEN [self |-> IF self.code = None
                        THEN [self EXCEPT !.code = Some(r.out.v.code)]
                        ELSE self,
               out |-> OkResult(set_query_from_pairs(
                         "https://getpocket.com/auth/authorize",
                         << <<"request_token", r.out.v.code>>,
                            <<"redirect_uri", RedirectUri>> >>)),
               posts |-> r.posts]
         ELSE [self |-> self, out |-> r.out, posts |-> r.posts])

get_auth_url(self, resp) ==
  Bind(request("https://getpocket.com/v3/oauth/request",
               PocketOAuthRequest(self.consumer_key, RedirectUri, None), resp,
               "PocketOAuthResponse"),
       LAMBDA r :
         IF r.out.kind = "Ok"
         THEN [self |-> [self EXCEPT !.code = Some(r.out.v.code)],
               out |-> OkResult(set_query_from_pairs(
                         "https://getpocket.com/auth/authorize",
                         << <<"request_token", r.out.v.code>>,
                            <<"redirect_uri", RedirectUri>> >>)),
               posts |-> r.posts]
         ELSE [self |-> self, out |-> r.out, posts |-> r.posts])

\* authorize, were it to use up the pending code when it succeeds.
authorize_clearing_code(self, resp) ==
  IF self.code = None
  THEN [self |-> self, out |-> Panicked("unwrap"), posts |-> <<>>]
  ELSE Bind(request("https://getpocket.com/v3/oauth/authorize",
                    PocketAuthorizeRequest(self.consumer_key, Unwrapped(self.code)),
                    resp, "PocketAuthorizeResponse"),
            LAMBDA r :
              IF r.out.kind = "Ok"
              THEN [self |-> [self EXCEPT !.access_token = Some(r.out.v.access_token),
                                          !.code = None],
                    out |-> OkResult(r.out.v.username),
                    posts |-> r.posts]
              ELSE [self |-> self, out |-> r.out, posts |-> r.posts])

\* authorize, were it to forget the access token when it fails.
authorize_forgetting_token(self, resp) ==
  IF self.code = None
  THEN [self |-> self, out |-> Panicked("unwrap"), posts |-> <<>>]
  ELSE Bind(request("https://getpocket.com/v3/oauth/authorize",
                    PocketAuthorizeRequest(self.consumer_key, Unwrapped(self.code)),
                    resp, "PocketAuthorizeResponse"),
            LAMBDA r :
              IF r.out.kind = "Ok"
              THEN [self |-> [self EXCEPT !.access_token = Some(r.out.v.access_token)],
                    out |-> OkResult(r.out.v.username),
                    posts |-> r.posts]
              ELSE [self |-> [self EXCEPT !.access_token = None],
                    out |-> r.out, posts |-> r.posts])

authorize(self, resp) ==
  IF self.code = None
  THEN [self |-> self, out |-> Panicked("unwrap"), posts |-> <<>>]
  ELSE Bind(request("https://getpocket.com/v3/oauth/authorize",
                    PocketAuthorizeRequest(self.consumer_key, Unwrapped(self.code)),
                    resp, "PocketAuthorizeResponse"),
            LAMBDA r :
              IF r.out.kind = "Ok"
              THEN [self |-> [self EXCEPT !.access_token = Some(r.out.v.access_token)],
                    out |-> OkResult(r.out.v.username),
                    posts |-> r.posts]
              ELSE [self |-> self, out |-> r.out, posts |-> r.posts])

\* add, were it to forget the access token when the service refuses it.
add_forgetting_token(self, url, title, tags, tweet_id, resp) ==
  IF self.access_token = None
  THEN [self |-> self, out |-> Panicked("unwrap"), posts |-> <<>>]
  ELSE Bind(request("https://getpocket.com/v3/add",
                    PocketAddRequest(self.consumer_key, Unwrapped(self.access_token),
                                     url, title, tags, tweet_id),
                    resp, "PocketAddResponse"),
            LAMBDA r :
              [self |-> IF r.out.kind = "Err" /\ r.out.variant = "Proto"
                        THEN [self EXCEPT !.access_token = None]
                        ELSE self,
               out |-> IF r.out.kind = "Ok" THEN OkResult(r.out.v.item) ELSE r.out,
               posts |-> r.posts])

add(self, url, title, tags, tweet_id, resp) ==
  IF self.access_token = None
  THEN [self |-> self, out |-> Panicked("unwrap"), posts |-> <<>>]
  ELSE Bind(request("https://getpocket.com/v3/add",
                    PocketAddRequest(self.consumer_key, Unwrapped(self.access_token),
                                     url, title, tags, tweet_id),
                    resp, "PocketAddResponse"),
            LAMBDA r :
              [self |-> self,
               out |-> IF r.out.kind = "Ok" THEN OkResult(r.out.v.item) ELSE r.out,
               posts |-> r.posts])

push(self, url, resp) == add(self, url, None, None, None, resp)

(***************************************************************************)
(* PocketGetRequest: the filter builder and its encoding.                  *)
(***************************************************************************)
Untagged == [k |-> "Untagged"]
Tagged(s) == [k |-> "Tagged", s |-> s]

PocketGetDetail_encode(v) ==
  JStr(CASE v = "Simple" -> <<"s", "i", "m", "p", "l", "e">> [] v = "Complete" -> <<"c", "o", "m", "p", "l", "e", "t", "e">>)

PocketGetSort_encode(v) ==
  JStr(CASE v = "Newest" -> <<"n", "e", "w", "e", "s", "t">> [] v = "Oldest" -> <<"o", "l", "d", "e", "s", "t">>
         [] v = "Title" -> <<"t", "i", "t", "l", "e">> [] v = "Site" -> <<"s", "i", "t", "e">>)

PocketGetState_encode(v) ==
  JStr(CASE v = "Unread" -> <<"u", "n", "r", "e", "a", "d">> [] v = "Archive" -> <<"a", "r", "c", "h", "i", "v", "e">>
         [] v = "All" -> <<"a", "l", "l">>)

PocketGetTag_encode(v) ==
  JStr(IF v.k = "Untagged" THEN <<"_", "u", "n", "t", "a", "g", "g", "e", "d", "_">> ELSE v.s)

PocketGetType_encode(v) ==
  JStr(CASE v = "Article" -> <<"a", "r", "t", "i", "c", "l", "e">> [] v = "Video" -> <<"v", "i", "d", "e", "o">>
         [] v = "Image" -> <<"i", "m", "a", "g", "e">>)

PocketGetRequest_new ==
  [search |-> None, domain |-> None, tag |-> None, state |-> None,
   content_type |-> None, detail_type |-> None, favorite |-> None,
   since |-> None, sort |-> None, count |-> None, offset |-> None]

\* Option<T>::encode with the encoder of T
EncodeOptionNum(o) == IF IsSome(o) THEN JNum(Unwrapped(o)) ELSE JNull
EncodeOptionBool(o) == IF IsSome(o) THEN JBool(Unwrapped(o)) ELSE JNull
EncodeOptionTag(o) == IF IsSome(o) THEN PocketGetTag_encode(Unwrapped(o)) ELSE JNull
EncodeOptionState(o) == IF IsSome(o) THEN PocketGetState_encode(Unwrapped(o)) ELSE JNull
EncodeOptionType(o) == IF IsSome(o) THEN PocketGetType_encode(Unwrapped(o)) ELSE JNull
EncodeOptionDetail(o) == IF IsSome(o) THEN PocketGetDetail_encode(Unwrapped(o)) ELSE JNull
EncodeOptionSort(o) == IF IsSome(o) THEN PocketGetSort_encode(Unwrapped(o)) ELSE JNull
EncodeOptionSec(o) == IF IsSome(o) THEN JNum(Unwrapped(o).sec) ELSE JNull

\* PocketGetRequest::encode, reached with an access token (it unwraps it).
PocketGetRequest_encode(self, req) ==
  JObj(<< <<"consumer_key", JStr(self.consumer_key)>>,
          <<"access_token", JStr(Unwrapped(self.access_token))>>,
          <<"search", EncodeOptionStr(req.search)>>,
          <<"domain", EncodeOptionStr(req.domain)>>,
          <<"tag", EncodeOptionTag(req.tag)>>,
          <<"state", EncodeOptionState(req.state)>>,
          <<"content_type", EncodeOptionType(req.content_type)>>,
          <<"detail_type", EncodeOptionDetail(req.detail_type)>>,
          <<"favorite", EncodeOptionBool(req.favorite)>>,
          <<"since", EncodeOptionSec(req.since)>>,
          <<"sort", EncodeOptionSort(req.sort)>>,
          <<"count", EncodeOptionNum(req.count)>>,
          <<"offset", EncodeOptionNum(req.offset)>> >>)

search(req, v) == [req EXCEPT !.search = Some(v)]
domain(req, v) == [req EXCEPT !.domain = Some(v)]
tag(req, v) == [req EXCEPT !.tag = Some(v)]
state(req, v) == [req EXCEPT !.state = Some(v)]
content_type(req, v) == [req EXCEPT !.content_type = Some(v)]
detail_type(req, v) == [req EXCEPT !.detail_type = Some(v)]
complete(req) == detail_type(req, "Complete")
simple(req) == detail_type(req, "Simple")
archived(req) == state(req, "Archive")
unread(req) == state(req, "Unread")
articles(req) == content_type(req, "Article")
videos(req) == content_type(req, "Video")
images(req) == content_type(req, "Image")
favorite(req, v) == [req EXCEPT !.favorite = Some(v)]
since(req, v) == [req EXCEPT !.since = Some(v)]
sort(req, v) == [req EXCEPT !.sort = Some(v)]
sort_by_newest(req) == sort(req, "Newest")
sort_by_oldest(req) == sort(req, "Oldest")
sort_by_title(req) == sort(req, "Title")
sort_by_site(req) == sort(req, "Site")
offset(req, v) == [req EXCEPT !.offset = Some(v)]
\* count, were it to keep a count that is already set.
count_keeping_first(req, v) ==
  IF IsSome(req.count) THEN req ELSE [req EXCEPT !.count = Some(v)]

count(req, v) == [req EXCEPT !.count = Some(v)]
slice(req, o, c) == count(offset(req, o), c)

filter(self) == PocketGetRequest_new

get(self, req, resp) ==
  IF self.access_token = None
  THEN [self |-> self, out |-> Panicked("unwrap"), posts |-> <<>>]
  ELSE Bind(request("https://getpocket.com/v3/get",
                    PocketGetRequest_encode(self, req), resp, "PocketGetResponse"),
            LAMBDA r :
              [self |-> self,
               out |-> IF r.out.kind = "Ok" THEN OkResult(r.out.v.list) ELSE r.out,
               posts |-> r.posts])

(***************************************************************************)
(* The actions and PocketSendRequest.  An action is the record of its      *)
(* struct: cls names the struct, the other fields are the struct's.        *)
(***************************************************************************)
\* PocketAction::name
PocketAction_name(self) ==
  CASE self.cls = "PocketAddAction" -> <<"a", "d", "d">>
    [] self.cls = "PocketArchiveAction" -> <<"a", "r", "c", "h", "i", "v", "e">>
    [] self.cls = "PocketReaddAction" -> <<"r", "e", "a", "d", "d">>
    [] self.cls = "PocketFavoriteAction" -> <<"f", "a", "v", "o", "r", "i", "t", "e">>
    [] self.cls = "PocketUnfavoriteAction" ->
         <<"u", "n", "f", "a", "v", "o", "r", "i", "t", "e">>
    [] self.cls = "PocketDeleteAction" -> <<"d", "e", "l", "e", "t", "e">>
    [] self.cls = "PocketTagsAddAction" -> <<"t", "a", "g", "s", "_", "a", "d", "d">>
    [] self.cls = "PocketTagsReplaceAction" ->
         <<"t", "a", "g", "s", "_", "r", "e", "p", "l", "a", "c", "e">>
    [] self.cls = "PocketTagsClearAction" ->
         <<"t", "a", "g", "s", "_", "c", "l", "e", "a", "r">>
    [] self.cls = "PocketTagRenameAction" ->
         <<"t", "a", "g", "_", "r", "e", "n", "a", "m", "e">>

\* json_encode of the structs that impl_item_pocket_action! declares
impl_item_pocket_action_json_encode(self) ==
  JObj(<< <<"name", JStr(PocketAction_name(self))>>,
          <<"item_id", JNum(self.item_id)>>,
          <<"time", EncodeOptionNum(self.time)>> >>)

PocketAddAction_json_encode(self) ==
  JObj(<< <<"name", JStr(PocketAction_name(self))>>,
          <<"item_id", EncodeOptionNum(self.item_id)>>,
          <<"ref_id", EncodeOptionStr(self.ref_id)>>,
          <<"tags", EncodeOptionStr(self.tags)>>,
          <<"time", EncodeOptionNum(self.time)>>,
          <<"title", EncodeOptionStr(self.title)>>,
          <<"url", EncodeOptionStr(self.url)>> >>)

PocketTagsAddAction_json_encode(self) ==
  JObj(<< <<"name", JStr(PocketAction_name(self))>>,
          <<"tags", JStr(self.tags)>>,
          <<"time", EncodeOptionNum(self.time)>> >>)

PocketTagsReplaceAction_json_encode(self) ==
  JObj(<< <<"name", JStr(PocketAction_name(self))>>,
          <<"item_id", JNum(self.item_id)>>,
          <<"tags", JStr(self.tags)>>,
          <<"time", EncodeOptionNum(self.time)>> >>)

PocketTagRenameAction_json_encode(self) ==
  JObj(<< <<"name", JStr(PocketAction_name(self))>>,
          <<"item_id", JNum(self.item_id)>>,
          <<"old_tag", JStr(self.old_tag)>>,
          <<"new_tag", JStr(self.new_tag)>>,
          <<"time", EncodeOptionNum(self.time)>> >>)

\* action.json_encode(e) on a &PocketAction
json_encode(self) ==
  CASE self.cls = "PocketAddAction" -> PocketAddAction_json_encode(self)
    [] self.cls = "PocketTagsAddAction" -> PocketTagsAddAction_json_encode(self)
    [] self.cls = "PocketTagsReplaceAction" ->
         PocketTagsReplaceAction_json_encode(self)
    [] self.cls = "PocketTagRenameAction" -> PocketTagRenameAction_json_encode(self)
    [] OTHER -> impl_item_pocket_action_json_encode(self)

\* PocketSendRequest::json_encode: self is [pocket, actions]; it unwraps the
\* access token of the pocket.
PocketSendRequest_json_encode(self) ==
  IF self.pocket.access_token = None THEN Panic("unwrap")
  ELSE [k |-> "ok",
        v |-> JObj(<< <<"consumer_key", JStr(self.pocket.consumer_key)>>,
                      <<"access_token", JStr(Unwrapped(self.pocket.access_token))>>,
                      <<"actions",
                        JArr([i \in 1..Len(self.actions) |->
                                json_encode(self.actions[i])])>> >>)]

(***************************************************************************)
(* Inputs: wire values as the service sends them.  Identifiers, sizes and  *)
(* flags come as decimal strings; the entries of an object are kept in the *)
(* order of their keys, as the parser's map enumerates them.               *)
(***************************************************************************)
MaxWireInt == 3
MaxListLen == 2

ValidImage ==
  JObj(<<
    <<"caption", JStr(<<"c">>)>>,
    <<"credit", JStr(<<"k">>)>>,
    <<"height", JStr(<<"2", "0">>)>>,
    <<"image_id", JStr(<<"1">>)>>,
    <<"item_id", JStr(<<"1">>)>>,
    <<"src", JStr(<<"s">>)>>,
    <<"width", JStr(<<"1", "0">>)>> >>)

ValidVideo ==
  JObj(<<
    <<"height", JStr(<<"2", "0">>)>>,
    <<"item_id", JStr(<<"1">>)>>,
    <<"length", JStr(<<"3", "0">>)>>,
    <<"src", JStr(<<"s">>)>>,
    <<"type", JStr(<<"1">>)>>,
    <<"vid", JStr(<<"v">>)>>,
    <<"video_id", JStr(<<"1">>)>>,
    <<"width", JStr(<<"1", "0">>)>> >>)

ValidAddedItem ==
  JObj(<<
    <<"content_length", JStr(<<"1", "0">>)>>,
    <<"date_published", JStr(<<"d">>)>>,
    <<"date_resolved", JStr(<<"d">>)>>,
    <<"domain_id", JStr(<<"2">>)>>,
    <<"encoding", JStr(<<"e">>)>>,
    <<"excerpt", JStr(<<"x">>)>>,
    <<"extended_item_id", JStr(<<"1">>)>>,
    <<"given_url", JStr(<<"u">>)>>,
    <<"has_image", JStr(<<"1">>)>>,
    <<"has_video", JStr(<<"0">>)>>,
    <<"images", JArr(<<>>)>>,
    <<"innerdomain_redirect", JStr(<<"1">>)>>,
    <<"is_article", JStr(<<"1">>)>>,
    <<"is_index", JStr(<<"0">>)>>,
    <<"item_id", JStr(<<"1">>)>>,
    <<"lang", JStr(<<"l">>)>>,
    <<"login_required", JStr(<<"0">>)>>,
    <<"mime_type", JStr(<<"m">>)>>,
    <<"normal_url", JStr(<<"u">>)>>,
    <<"origin_domain_id", JStr(<<"2">>)>>,
    <<"resolved_id", JStr(<<"1">>)>>,
    <<"resolved_normal_url", JStr(<<"u">>)>>,
    <<"resolved_url", JStr(<<"u">>)>>,
    <<"response_code", JStr(<<"2", "0", "0">>)>>,
    <<"title", JStr(<<"t">>)>>,
    <<"used_fallback", JStr(<<"1">>)>>,
    <<"videos", JArr(<<>>)>>,
    <<"word_count", JStr(<<"3">>)>> >>)

ValidItem ==
  JObj(<<
    <<"excerpt", JStr(<<"x">>)>>,
    <<"favorite", JStr(<<"0">>)>>,
    <<"given_title", JStr(<<"t">>)>>,
    <<"given_url", JStr(<<"u">>)>>,
    <<"has_image", JStr(<<"1">>)>>,
    <<"has_video", JStr(<<"0">>)>>,
    <<"images", JNull>>,
    <<"is_article", JStr(<<"1">>)>>,
    <<"is_index", JStr(<<"0">>)>>,
    <<"item_id", JStr(<<"1">>)>>,
    <<"resolved_id", JStr(<<"1">>)>>,
    <<"resolved_title", JStr(<<"t">>)>>,
    <<"resolved_url", JStr(<<"u">>)>>,
    <<"sort_id", JNum(0)>>,
    <<"status", JStr(<<"0">>)>>,
    <<"time_added", JStr(<<"1", "0", "0">>)>>,
    <<"time_favorited", JStr(<<"0">>)>>,
    <<"time_read", JStr(<<"0">>)>>,
    <<"time_updated", JStr(<<"1", "0", "0">>)>>,
    <<"videos", JNull>>,
    <<"word_count", JStr(<<"3">>)>> >>)

With(j, k, v) ==
  JObj([i \in 1..Len(j.m) |-> IF j.m[i][1] = k THEN <<k, v>> ELSE j.m[i]])
Without(j, k) == JObj(RemoveKey(j.m, k))

IndexKeys == <<"0", "1", "2", "3", "4", "5">>
IndexedObj(elts) == JObj([i \in 1..Len(elts) |-> <<IndexKeys[i], elts[i]>>])

SeqsUpTo(S, n) == UNION {[1..k -> S] : k \in 0..n}

GetResponseBody(list, complete_) ==
  JObj(<< <<"complete", complete_>>, <<"error", JNull>>, <<"list", list>>,
          <<"since", JNum(1000)>>, <<"status", JNum(1)>> >>)

AddResponseBody(item) == JObj(<< <<"item", item>>, <<"status", JNum(1)>> >>)

ConsumerKey == <<"a", "b", "c">>
InitialToken == <<"d", "e", "f">>
Code1 == <<"c", "1">>
Code2 == <<"x", "&", "y", " ", "z">>
Token1 == <<"t", "1">>
UserName == <<"u">>

OAuthBodies ==
  { JsonText(JObj(<< <<"code", JStr(Code1)>>, <<"state", JNull>> >>)),
    JsonText(JObj(<< <<"code", JStr(Code2)>> >>)),
    JsonText(JObj(<< <<"code", JNum(5)>> >>)),
    JsonText(JObj(<<>>)),
    BadText }

AuthorizeBodies ==
  { JsonText(JObj(<< <<"access_token", JStr(Token1)>>, <<"username", JStr(UserName)>> >>)),
    JsonText(JObj(<< <<"access_token", JStr(Token1)>> >>)),
    BadText }

AddBodies ==
  { JsonText(AddResponseBody(ValidAddedItem)),
    JsonText(AddResponseBody(With(ValidAddedItem, "images",
                                  JArr(<<ValidImage, Without(ValidImage, "src")>>)))),
    JsonText(AddResponseBody(With(ValidAddedItem, "has_image", JNum(3)))),
    JsonText(JObj(<<>>)),
    BadText,
    EmptyText }

GetBodies ==
  { JsonText(GetResponseBody(JObj(<<>>), JNum(1))),
    JsonText(GetResponseBody(IndexedObj(<<ValidItem, Without(ValidItem, "excerpt")>>),
                             JNum(1))),
    JsonText(GetResponseBody(IndexedObj(<<With(ValidItem, "status", JNum(3))>>),
                             JNum(1))),
    BadText }

HeaderCodes == {Some(Header(<<"1", "9", "8">>)), Some(Header(<<"a", "b", "c">>)), Some(OpaqueHeader)}
HeaderErrors ==
  {None, Some(Header(<<"i", "n", "v", "a", "l", "i", "d", " ", "c", "o", "n", "s", "u", "m", "e", "r", " ", "k", "e", "y">>)), Some(OpaqueHeader)}

\* The answers to one POST: no answer, an answer without the error-code
\* header (read to the end or not), an answer with it.
ResponsesOver(bodies, codes, errors) ==
  {SendFailure}
  \cup {Response(None, None, ok, b) : ok \in BOOLEAN, b \in bodies}
  \cup {Response(c, e, TRUE, b) : c \in codes, e \in errors, b \in bodies}

Responses(bodies) == ResponsesOver(bodies, HeaderCodes, HeaderErrors)

GetResponses ==
  ResponsesOver(GetBodies, {Some(Header(<<"1", "9", "8">>)), Some(Header(<<"a", "b", "c">>))},
                {Some(Header(<<"i", "n", "v", "a", "l", "i", "d", " ", "c", "o", "n", "s", "u", "m", "e", "r", " ", "k", "e", "y">>))})

NoResponse == [none |-> TRUE]

UrlArgs == {<<"u">>}
TitleArgs == {None, Some(<<"t">>)}
TagsArgs == {None, Some(<<"g">>)}
TweetIdArgs == {None, Some(<<"7">>)}
TextArgs == {<<"a">>, <<"b">>}
TagArgs == {Untagged, Tagged(<<"a">>)}
StateArgs == {"Unread", "Archive", "All"}
TypeArgs == {"Article", "Video", "Image"}
DetailArgs == {"Simple", "Complete"}
SortArgs == {"Newest", "Oldest", "Title", "Site"}
SinceArgs == {[sec |-> 1000, nsec |-> 0], [sec |-> 2000, nsec |-> 0]}
SizeArgs == {5, 10}

(***************************************************************************)
(* The state: the session of one Pocket, the filter builder that borrows   *)
(* it (if any), and the last operation with its arguments, the transport's *)
(* answer, its outcome and the POSTs it made.  lastUrl is the URL that the most recent *)
(* successful get_auth_url returned.  input and decoded are the value      *)
(* under decode and its result when a decoder is run on its own.           *)
(***************************************************************************)
VARIABLES consumer_key, access_token, code, filt, setterCalls, op, args,
          resp, result, posts, lastUrl, input, decoded

session == <<consumer_key, access_token, code>>
vars == <<consumer_key, access_token, code, filt, setterCalls, op, args,
          resp, result, posts, lastUrl, input, decoded>>

Self == [consumer_key |-> consumer_key, access_token |-> access_token,
         code |-> code]

NoInput == [ty |-> "none"]
Pending == [k |-> "pending"]

Init ==
  /\ \E t \in {None, Some(InitialToken)} :
       \E p \in {new(ConsumerKey, t)} :
         /\ consumer_key = p.consumer_key
         /\ access_token = p.access_token
         /\ code = p.code
  /\ filt = None
  /\ setterCalls = 0
  /\ op = "new"
  /\ args = <<>>
  /\ resp = NoResponse
  /\ result = OkResult(<<>>)
  /\ posts = <<>>
  /\ lastUrl = None
  /\ input = NoInput
  /\ decoded = Pending

\* The caller is between two calls: no builder borrows the Pocket and no
\* outcome is held.  A panic ends the program.
Idle == filt = None /\ op = "none"
Building == filt # None

\* The effect of an operation r of the Pocket answered by rsp.
Apply(name, a, r, rsp) ==
  /\ args' = a
  /\ consumer_key' = r.self.consumer_key
  /\ access_token' = r.self.access_token
  /\ code' = r.self.code
  /\ op' = name
  /\ result' = r.out
  /\ posts' = r.posts
  /\ resp' = IF r.posts = <<>> THEN NoResponse ELSE rsp

GetAuthUrl ==
  /\ Idle
  /\ \E rsp \in Responses(OAuthBodies) :
       \E r \in {get_auth_url(Self, rsp)} :
         /\ Apply("get_auth_url", <<>>, r, rsp)
         /\ lastUrl' = IF r.out.kind = "Ok" THEN Some(r.out.v) ELSE lastUrl
  /\ UNCHANGED <<filt, setterCalls, input, decoded>>

Authorize ==
  /\ Idle
  /\ \E rsp \in Responses(AuthorizeBodies) :
       \E r \in {authorize(Self, rsp)} : Apply("authorize", <<>>, r, rsp)
  /\ UNCHANGED <<filt, setterCalls, lastUrl, input, decoded>>

Add ==
  /\ Idle
  /\ \E rsp \in Responses(AddBodies), url \in UrlArgs, title \in TitleArgs,
        tags \in TagsArgs, tweet_id \in TweetIdArgs :
       \E r \in {add(Self, url, title, tags, tweet_id, rsp)} :
         Apply("add", [url |-> url, title |-> title, tags |-> tags,
                       tweet_id |-> tweet_id], r, rsp)
  /\ UNCHANGED <<filt, setterCalls, lastUrl, input, decoded>>

Push ==
  /\ Idle
  /\ \E rsp \in Responses(AddBodies), url \in UrlArgs :
       \E r \in {push(Self, url, rsp)} : Apply("push", [url |-> url], r, rsp)
  /\ UNCHANGED <<filt, setterCalls, lastUrl, input, decoded>>

Filter ==
  /\ Idle
  /\ filt' = Some(filter(Self))
  /\ setterCalls' = 0
  /\ op' = "filter"
  /\ args' = <<>>
  /\ result' = OkResult(<<>>)
  /\ posts' = <<>>
  /\ resp' = NoResponse
  /\ UNCHANGED <<session, lastUrl, input, decoded>>

\* A setter of the builder: it returns the builder, now req.
Setter(name, a, req) ==
  /\ Building
  /\ setterCalls < MaxSetterCalls
  /\ filt' = Some(req)
  /\ setterCalls' = setterCalls + 1
  /\ op' = name
  /\ args' = a
  /\ result' = OkResult(<<>>)
  /\ posts' = <<>>
  /\ resp' = NoResponse
  /\ UNCHANGED <<session, lastUrl, input, decoded>>

Req == Unwrapped(filt)

SetSearch == \E v \in TextArgs : Setter("search", <<v>>, search(Req, v))
SetDomain == \E v \in TextArgs : Setter("domain", <<v>>, domain(Req, v))
SetTag == \E v \in TagArgs : Setter("tag", <<v>>, tag(Req, v))
SetState == \E v \in StateArgs : Setter("state", <<v>>, state(Req, v))
SetContentType == \E v \in TypeArgs : Setter("content_type", <<v>>, content_type(Req, v))
SetDetailType == \E v \in DetailArgs : Setter("detail_type", <<v>>, detail_type(Req, v))
SetComplete == Setter("complete", <<>>, complete(Req))
SetSimple == Setter("simple", <<>>, simple(Req))
SetArchived == Setter("archived", <<>>, archived(Req))
SetUnread == Setter("unread", <<>>, unread(Req))
SetArticles == Setter("articles", <<>>, articles(Req))
SetVideos == Setter("videos", <<>>, videos(Req))
SetImages == Setter("images", <<>>, images(Req))
SetFavorite == \E v \in BOOLEAN : Setter("favorite", <<v>>, favorite(Req, v))
SetSince == \E v \in SinceArgs : Setter("since", <<v>>, since(Req, v))
SetSort == \E v \in SortArgs : Setter("sort", <<v>>, sort(Req, v))
SetSortByNewest == Setter("sort_by_newest", <<>>, sort_by_newest(Req))
SetSortByOldest == Setter("sort_by_oldest", <<>>, sort_by_oldest(Req))
SetSortByTitle == Setter("sort_by_title", <<>>, sort_by_title(Req))
SetSortBySite == Setter("sort_by_site", <<>>, sort_by_site(Req))
SetOffset == \E v \in SizeArgs : Setter("offset", <<v>>, offset(Req, v))
SetCount == \E v \in SizeArgs : Setter("count", <<v>>, count(Req, v))
SetSlice == \E o \in SizeArgs, c \in SizeArgs : Setter("slice", <<o, c>>, slice(Req, o, c))

Get ==
  /\ Building
  /\ \E rsp \in GetResponses :
       \E r \in {get(Self, Req, rsp)} : Apply("get", <<>>, r, rsp)
  /\ filt' = None
  /\ setterCalls' = 0
  /\ UNCHANGED <<lastUrl, input, decoded>>

\* The builder goes out of scope without get.
Drop ==
  /\ Building
  /\ filt' = None
  /\ setterCalls' = 0
  /\ op' = "none"
  /\ args' = <<>>
  /\ result' = OkResult(<<>>)
  /\ posts' = <<>>
  /\ resp' = NoResponse
  /\ UNCHANGED <<session, lastUrl, input, decoded>>

\* The caller takes the outcome of the last operation and goes on.
Continue ==
  /\ filt = None
  /\ op # "none"
  /\ result.kind # "Panic"
  /\ op' = "none"
  /\ args' = <<>>
  /\ result' = OkResult(<<>>)
  /\ posts' = <<>>
  /\ resp' = NoResponse
  /\ UNCHANGED <<session, filt, setterCalls, lastUrl, input, decoded>>

Next ==
  \/ GetAuthUrl \/ Authorize \/ Add \/ Push \/ Filter
  \/ SetSearch \/ SetDomain \/ SetTag \/ SetState \/ SetContentType
  \/ SetDetailType \/ SetComplete \/ SetSimple \/ SetArchived \/ SetUnread
  \/ SetArticles \/ SetVideos \/ SetImages \/ SetFavorite \/ SetSince
  \/ SetSort \/ SetSortByNewest \/ SetSortByOldest \/ SetSortByTitle
  \/ SetSortBySite \/ SetOffset \/ SetCount \/ SetSlice
  \/ Get \/ Drop \/ Continue

Spec == Init /\ [][Next]_vars

(***************************************************************************)
(* Properties of the client facade.                                        *)
(***************************************************************************)
NetworkOps == {"get_auth_url", "authorize", "add", "push", "get"}
SetterOps ==
  {"search", "domain", "tag", "state", "content_type", "detail_type",
   "complete", "simple", "archived", "unread", "articles", "videos", "images",
   "favorite", "since", "sort", "sort_by_newest", "sort_by_oldest",
   "sort_by_title", "sort_by_site", "offset", "count", "slice"}

\* The operation answered by resp got the error-code header.
GotErrorCode ==
  /\ op \in NetworkOps
  /\ posts # <<>>
  /\ resp.sent
  /\ resp.XErrorCode # None

\* C1: whenever the answer to a request carries the XErrorCode header, the
\* call returns PocketError::Proto(code, message), the code being the number
\* in that header and the message the text of the XError header, whatever
\* the body.
ClaimC1 ==
  GotErrorCode =>
    /\ result.kind = "Err"
    /\ result.variant = "Proto"
    /\ result.code = ParseUnsigned(Unwrapped(resp.XErrorCode).s, U16Max)
    /\ resp.XError # None => result.msg = Unwrapped(resp.XError).s

\* C2: every operation ends with its success value or with one PocketError;
\* none ends in a panic.
ClaimC2 == op \in NetworkOps => result.kind \in {"Ok", "Err"}

\* C3: add, push, filter, the setters of the filter and get leave
\* consumer_key, access_token and code unchanged, whatever their outcome.
OnlyAuthorizationChangesSession ==
  [][op' \in {"add", "push", "filter", "get"} \cup SetterOps
       => UNCHANGED session]_vars

\* add has been refused by the service in a session that holds a token and
\* a pending code.
RefusedAddInSession ==
  /\ op = "add"
  /\ result.kind = "Err"
  /\ result.variant = "Proto"
  /\ access_token = Some(Token1)
  /\ IsSome(code)

\* The code that the authorize request of the last operation carried.
SentCode == Lookup(posts[1].data.m, "code").s

\* C4: authorize succeeds, and so sets the access token, only after a
\* get_auth_url that succeeded, and the code its request carries is the one
\* that the most recent successful get_auth_url returned in the
\* request_token parameter of its URL.
AuthorizeFollowsGetAuthUrl ==
  [][op' = "authorize" =>
       /\ (result'.kind = "Ok" \/ access_token' # access_token \/ posts' # <<>>)
            => IsSome(lastUrl')
       /\ posts' # <<>>
            => SentCode' = QueryValue(Unwrapped(lastUrl'), "request_token")]_vars

\* authorize has succeeded with the code of a second get_auth_url.
AuthorizedWithSecondCode ==
  /\ op = "authorize"
  /\ result.kind = "Ok"
  /\ access_token = Some(Token1)
  /\ code = Some(Code2)
  /\ SentCode = Code2

\* C10: the add request has the keys consumer_key, access_token and url,
\* one key for each of title, tags and tweet_id that is given, and no other
\* key; no key holds null.
ClaimC10 ==
  op \in {"add", "push"} /\ posts # <<>> =>
    LET m == posts[1].data.m
        given == IF op = "push" THEN {}
                 ELSE {k \in {"title", "tags", "tweet_id"} : IsSome(args[k])}
    IN /\ Keys(m) = {"consumer_key", "access_token", "url"} \cup given
       /\ \A i \in 1..Len(m) : m[i][2] # JNull

\* The clauses of the filter.
Clauses ==
  {"search", "domain", "tag", "state", "content_type", "detail_type",
   "favorite", "since", "sort", "count", "offset"}

\* C11: the request that get encodes has the keys consumer_key and
\* access_token, one key for each clause that a setter has set, and no other
\* key; no key holds null.
ClaimC11 ==
  [][op' = "get" /\ posts' # <<>> =>
       LET m == posts'[1].data.m
       IN /\ Keys(m) = {"consumer_key", "access_token"}
                        \cup {c \in Clauses : IsSome(Unwrapped(filt)[c])}
          /\ \A i \in 1..Len(m) : m[i][2] # JNull]_vars

\* What a call of setter name with arguments a writes: the clauses it
\* targets and the value it gives to each.
Written(name, a) ==
  CASE name \in {"search", "domain", "tag", "state", "content_type",
                 "detail_type", "favorite", "since", "sort", "offset", "count"}
         -> (name :> a[1])
    [] name = "complete" -> ("detail_type" :> "Complete")
    [] name = "simple" -> ("detail_type" :> "Simple")
    [] name = "archived" -> ("state" :> "Archive")
    [] name = "unread" -> ("state" :> "Unread")
    [] name = "articles" -> ("content_type" :> "Article")
    [] name = "videos" -> ("content_type" :> "Video")
    [] name = "images" -> ("content_type" :> "Image")
    [] name = "sort_by_newest" -> ("sort" :> "Newest")
    [] name = "sort_by_oldest" -> ("sort" :> "Oldest")
    [] name = "sort_by_title" -> ("sort" :> "Title")
    [] name = "sort_by_site" -> ("sort" :> "Site")
    [] name = "slice" -> ("offset" :> a[1]) @@ ("count" :> a[2])

\* The value of clause c as the service reads it from the request.
ClauseOnWire(c, v) ==
  CASE c \in {"search", "domain"} -> JStr(v)
    [] c = "tag" -> PocketGetTag_encode(v)
    [] c = "state" -> PocketGetState_encode(v)
    [] c = "content_type" -> PocketGetType_encode(v)
    [] c = "detail_type" -> PocketGetDetail_encode(v)
    [] c = "favorite" -> JBool(v)
    [] c = "since" -> JNum(v.sec)
    [] c = "sort" -> PocketGetSort_encode(v)
    [] c \in {"count", "offset"} -> JNum(v)

\* C12: a setter call gives its argument to the clause (or clauses) it
\* targets, whatever they held, and changes no other clause; get encodes for
\* each clause that is set the value it then holds, which is the argument of
\* the last call that targeted it.
SettersAreLastWriteWins ==
  [][/\ op' \in SetterOps =>
          \A c \in Clauses :
            Unwrapped(filt')[c] =
              IF c \in DOMAIN Written(op', args')
              THEN Some(Written(op', args')[c])
              ELSE Unwrapped(filt)[c]
     /\ op' = "get" /\ posts' # <<>> =>
          \A c \in Clauses :
            IsSome(Unwrapped(filt)[c]) =>
              Lookup(posts'[1].data.m, c) =
                ClauseOnWire(c, Unwrapped(Unwrapped(filt)[c]))]_vars

\* Two setter calls have been made, both on count, and the builder holds
\* the argument of the second in count and nothing in the other clauses.
CountSetTwice ==
  /\ Building
  /\ setterCalls = 2
  /\ op = "count"
  /\ args = <<5>>
  /\ Unwrapped(filt) = [PocketGetRequest_new EXCEPT !.count = Some(5)]

\* C16: every get_auth_url, authorize, add, push and get makes exactly one
\* POST, whatever its outcome.
ClaimC16 == op \in NetworkOps => Len(posts) = 1

\* The text under key k of the body that answered the last operation.
Answered(k) == Lookup(resp.body.json.m, k).s

\* C17: get_auth_url leaves access_token unchanged, and leaves code
\* unchanged unless it succeeds, when code becomes the code of the answer;
\* authorize leaves code unchanged, and leaves access_token unchanged unless
\* it succeeds, when access_token becomes the token of the answer.
AuthorizationChangesSessionOnSuccess ==
  [][/\ op' = "get_auth_url" =>
          /\ access_token' = access_token
          /\ consumer_key' = consumer_key
          /\ code' = IF result'.kind = "Ok" THEN Some(Answered("code")') ELSE code
     /\ op' = "authorize" =>
          /\ code' = code
          /\ consumer_key' = consumer_key
          /\ access_token' = IF result'.kind = "Ok"
                             THEN Some(Answered("access_token")')
                             ELSE access_token]_vars

\* authorize has succeeded and the code it used is still pending.
AuthorizeKeptCode ==
  /\ op = "authorize"
  /\ result = OkResult(UserName)
  /\ access_token = Some(Token1)
  /\ code = Some(Code1)

\* C18: consumer_key is the key given to new; an access token that is set
\* stays set, and access_token changes only in an authorize that succeeds,
\* to the token of its answer.
TokenIsNeverUnset ==
  /\ [](consumer_key = ConsumerKey)
  /\ [][/\ IsSome(access_token) => IsSome(access_token')
        /\ access_token' # access_token =>
             /\ op' = "authorize"
             /\ result'.kind = "Ok"
             /\ access_token' = Some(Answered("access_token")')]_vars

\* The service has refused an authorize in a session that was created with
\* a token, and the token is still there.
RefusedAuthorizeKeptToken ==
  /\ op = "authorize"
  /\ result.kind = "Err"
  /\ result.variant = "Proto"
  /\ consumer_key = ConsumerKey
  /\ access_token = Some(InitialToken)

(***************************************************************************)
(* The decoders on their own: a wire value is drawn, and the decoder of    *)
(* its record type is run on a json::Decoder that holds it.                *)
(***************************************************************************)
DigitChars == <<"0", "1", "2", "3", "4", "5", "6", "7", "8", "9">>

WireInts ==
  {JNum(n) : n \in 0..MaxWireInt}
  \cup {JStr(<<DigitChars[n + 1]>>) : n \in 0..MaxWireInt}
  \cup {JNum(255), JNum(256), JNum(-1), JNull, JF64, JStr(<<"x">>)}

ImageElems ==
  {ValidImage, Without(ValidImage, "src"), With(ValidImage, "width", JNum(70000))}
VideoElems ==
  {ValidVideo, With(ValidVideo, "length", JNull), Without(ValidVideo, "length"),
   Without(ValidVideo, "vid")}
ListElems ==
  {ValidItem, Without(ValidItem, "excerpt"),
   With(ValidItem, "videos", IndexedObj(<<ValidVideo>>))}

\* The shapes of an images or videos field.
Collections(elems) ==
  {JArr(q) : q \in SeqsUpTo(elems, MaxListLen)}
  \cup {IndexedObj(q) : q \in SeqsUpTo(elems, MaxListLen)}
  \cup {JObj(<< <<"a", e>> >>) : e \in elems}
  \cup {JNull, JNum(0)}

AddedItemBoolFields ==
  {"login_required", "used_fallback", "innerdomain_redirect", "is_index",
   "is_article"}
ItemBoolFields == {"favorite", "is_index", "is_article"}
HasFields == {"has_image", "has_video"}

ImageInputs == ImageElems \cup {Without(ValidImage, f) : f \in Keys(ValidImage.m)}
VideoInputs == VideoElems \cup {Without(ValidVideo, f) : f \in Keys(ValidVideo.m)}

AddedItemInputs ==
  {ValidAddedItem}
  \cup {With(ValidAddedItem, f, w) : f \in AddedItemBoolFields \cup HasFields,
                                     w \in WireInts}
  \cup {With(ValidAddedItem, "images", c) : c \in Collections(ImageElems)}
  \cup {With(ValidAddedItem, "videos", c) : c \in Collections(VideoElems)}
  \cup {Without(ValidAddedItem, f) : f \in Keys(ValidAddedItem.m)}

ItemInputs ==
  {ValidItem}
  \cup {With(ValidItem, f, w) : f \in ItemBoolFields \cup HasFields \cup {"status"},
                                w \in WireInts}
  \cup {With(ValidItem, "images", c) : c \in Collections(ImageElems)}
  \cup {With(ValidItem, "videos", c) : c \in Collections(VideoElems)}
  \cup {Without(ValidItem, f) : f \in Keys(ValidItem.m)}

ValidGetResponse == GetResponseBody(JObj(<<>>), JNum(1))

GetResponseInputs ==
  {GetResponseBody(IndexedObj(q), JNum(1)) : q \in SeqsUpTo(ListElems, MaxListLen)}
  \cup {With(ValidGetResponse, "complete", w) : w \in WireInts}
  \cup {With(ValidGetResponse, "list", l) : l \in {JArr(<<>>), JNull}}
  \cup {Without(ValidGetResponse, f) : f \in Keys(ValidGetResponse.m)}

Typed(ty, S) == {[ty |-> ty, json |-> j] : j \in S}

\* The actions that a caller constructs.
TimeArgs == {None, Some(5)}
ItemActionClasses ==
  {"PocketArchiveAction", "PocketReaddAction", "PocketFavoriteAction",
   "PocketUnfavoriteAction", "PocketDeleteAction", "PocketTagsClearAction"}
ItemActions ==
  {[cls |-> c, item_id |-> 1, time |-> t] : c \in ItemActionClasses, t \in TimeArgs}
AddActions ==
  {[cls |-> "PocketAddAction", item_id |-> i, ref_id |-> r, tags |-> g,
    time |-> t, title |-> ti, url |-> u] :
     i \in {None, Some(1)}, r \in TweetIdArgs, g \in TagsArgs, t \in TimeArgs,
     ti \in TitleArgs, u \in {None, Some(<<"u">>)}}
TagsActions ==
  {[cls |-> c, item_id |-> 1, tags |-> <<"g">>, time |-> t] :
     c \in {"PocketTagsAddAction", "PocketTagsReplaceAction"}, t \in TimeArgs}
TagRenameActions ==
  {[cls |-> "PocketTagRenameAction", item_id |-> 1, old_tag |-> <<"g">>,
    new_tag |-> <<"h">>, time |-> t] : t \in TimeArgs}
ActionInputs == ItemActions \cup AddActions \cup TagsActions \cup TagRenameActions

\* The actions of a batch, and the answers to it.
BatchActions ==
  {[cls |-> "PocketArchiveAction", item_id |-> 1, time |-> None],
   [cls |-> "PocketAddAction", item_id |-> None, ref_id |-> None, tags |-> None,
    time |-> None, title |-> None, url |-> None],
   [cls |-> "PocketTagsReplaceAction", item_id |-> 1, tags |-> <<"g">>,
    time |-> Some(5)]}
SendResponseBody(results) ==
  JObj(<< <<"action_results", JArr(results)>>, <<"status", JNum(1)>> >>)
SendResponseInputs ==
  {SendResponseBody(q) : q \in SeqsUpTo({JBool(TRUE), JBool(FALSE)}, MaxListLen)}
  \cup {SendResponseBody(<<JNum(1)>>)}
SendInputs ==
  {[ty |-> "PocketSendRequest",
    request |-> [pocket |-> new(ConsumerKey, t), actions |-> q],
    json |-> j] :
     t \in {None, Some(InitialToken)}, q \in SeqsUpTo(BatchActions, MaxListLen),
     j \in SendResponseInputs}

CodecInputs ==
  Typed("PocketItemHas", WireInts) \cup Typed("PocketItemStatus", WireInts)
  \cup Typed("ItemImage", ImageInputs) \cup Typed("ItemVideo", VideoInputs)
  \cup Typed("PocketAddedItem", AddedItemInputs)
  \cup Typed("PocketItem", ItemInputs)
  \cup Typed("PocketGetResponse", GetResponseInputs)
  \cup {[ty |-> "PocketAction", action |-> a] : a \in ActionInputs}
  \cup SendInputs

InitCodec ==
  /\ consumer_key = ConsumerKey
  /\ access_token = None
  /\ code = None
  /\ filt = None
  /\ setterCalls = 0
  /\ op = "none"
  /\ args = <<>>
  /\ resp = NoResponse
  /\ result = OkResult(<<>>)
  /\ posts = <<>>
  /\ lastUrl = None
  /\ input \in CodecInputs
  /\ decoded = Pending

\* What the caller of decode sees of the decoder's result r.
Decoded(r) ==
  CASE r.k = "ok" -> [k |-> "ok", v |-> r.v]
    [] r.k = "err" -> [k |-> "err", e |-> r.e]
    [] OTHER -> [k |-> "panic", why |-> r.why]

\* Decoder::new(json)
Decoder_new(json) == <<json>>

Run(ty, r) ==
  /\ input.ty = ty
  /\ decoded = Pending
  /\ decoded' = Bind(r, Decoded)
  /\ UNCHANGED <<consumer_key, access_token, code, filt, setterCalls, op, args,
                 resp, result, posts, lastUrl, input>>

DecodePocketItemHas ==
  Run("PocketItemHas", PocketItemHas_decode(Decoder_new(input.json)))
DecodePocketItemStatus ==
  Run("PocketItemStatus", PocketItemStatus_decode(Decoder_new(input.json)))
DecodeItemImage == Run("ItemImage", ItemImage_decode(Decoder_new(input.json)))
DecodeItemVideo == Run("ItemVideo", ItemVideo_decode(Decoder_new(input.json)))
DecodePocketAddedItem ==
  Run("PocketAddedItem", PocketAddedItem_decode(Decoder_new(input.json)))
DecodePocketItem == Run("PocketItem", PocketItem_decode(Decoder_new(input.json)))
DecodePocketGetResponse ==
  Run("PocketGetResponse", PocketGetResponse_decode(Decoder_new(input.json)))

\* An action is encoded.
EncodePocketAction ==
  Run("PocketAction", [k |-> "ok", v |-> json_encode(input.action)])

\* A batch of actions is encoded as a PocketSendRequest, and the body that
\* answers it is decoded as a PocketSendResponse.
SendActions ==
  /\ input.ty = "PocketSendRequest"
  /\ decoded = Pending
  /\ decoded' =
       [k |-> "sent",
        request |-> Bind(PocketSendRequest_json_encode(input.request), Decoded),
        response |-> Bind(PocketSendResponse_decode(Decoder_new(input.json)),
                          Decoded)]
  /\ UNCHANGED <<consumer_key, access_token, code, filt, setterCalls, op, args,
                 resp, result, posts, lastUrl, input>>

NextCodec ==
  \/ DecodePocketItemHas \/ DecodePocketItemStatus \/ DecodeItemImage
  \/ DecodeItemVideo \/ DecodePocketAddedItem \/ DecodePocketItem
  \/ DecodePocketGetResponse \/ EncodePocketAction \/ SendActions

CodecSpec == InitCodec /\ [][NextCodec]_vars

(***************************************************************************)
(* Properties of the decoders.                                             *)
(***************************************************************************)
FieldsOf(ty) ==
  CASE ty = "ItemImage" -> ItemImageFields
    [] ty = "ItemVideo" -> ItemVideoFields
    [] ty = "PocketAddedItem" -> PocketAddedItemFields
    [] ty = "PocketItem" -> PocketItemFields
    [] ty = "PocketGetResponse" -> PocketGetResponseFields

ValidOf(ty) ==
  CASE ty = "ItemImage" -> ValidImage
    [] ty = "ItemVideo" -> ValidVideo
    [] ty = "PocketAddedItem" -> ValidAddedItem
    [] ty = "PocketItem" -> ValidItem
    [] ty = "PocketGetResponse" -> ValidGetResponse

BoolFieldsOf(ty) ==
  CASE ty = "PocketAddedItem" -> AddedItemBoolFields
    [] ty = "PocketItem" -> ItemBoolFields
    [] ty = "PocketGetResponse" -> {"complete"}

ElementFieldsOf(f) == IF f = "images" THEN ItemImageFields ELSE ItemVideoFields

\* The input is the valid record of its type but for the value of field f,
\* which is present.
VariesOnly(f) ==
  /\ input.json.t = "obj"
  /\ HasKey(input.json.m, f)
  /\ Without(input.json, f) = Without(ValidOf(input.ty), f)

\* The elements of a collection on the wire, in enumeration order.
ElementsOf(c) == IF c.t = "arr" THEN c.a ELSE [i \in 1..Len(c.m) |-> c.m[i][2]]
DecodesAs(fields, e) == read_struct(fields, Decoder_new(e)).k = "ok"
IsIndexed(c) == c.t = "obj" /\ \A i \in 1..Len(c.m) : c.m[i][1] = IndexKeys[i]

\* The decoded images or videos of a record: PocketItem holds them in an
\* Option.
CollectionOf(ty, v) == IF ty = "PocketItem" THEN Unwrapped(v) ELSE v

\* C5: if an element of list fails to decode as a PocketItem, so does the
\* whole PocketGetResponse; a decoded list has as many items as list has
\* entries.
ClaimC5 ==
  input.ty = "PocketGetResponse" /\ decoded # Pending /\ VariesOnly("list")
  /\ Lookup(input.json.m, "list").t = "obj" =>
    LET l == Lookup(input.json.m, "list").m
    IN /\ (\E i \in 1..Len(l) : ~DecodesAs(PocketItemFields, l[i][2]))
            => decoded.k = "err"
       /\ decoded.k = "ok" => Len(decoded.v.list) = Len(l)

\* C6: a record with a required field missing, or with an element of
\* images or videos that fails to decode, fails to decode as a whole.
ClaimC6 ==
  input.ty \in {"ItemImage", "ItemVideo", "PocketAddedItem", "PocketItem"}
  /\ decoded # Pending /\ input.json.t = "obj" =>
    LET fields == FieldsOf(input.ty)
    IN /\ \A i \in 1..Len(fields) :
            /\ fields[i][3] \notin {"opt_usize", "optmap_video", "optmap_image"}
            /\ ~HasKey(input.json.m, fields[i][2])
            => decoded.k = "err"
       /\ \A f \in {"images", "videos"} :
            /\ input.ty \in {"PocketAddedItem", "PocketItem"}
            /\ HasKey(input.json.m, f)
            /\ Lookup(input.json.m, f).t \in {"arr", "obj"}
            /\ \E i \in 1..Len(ElementsOf(Lookup(input.json.m, f))) :
                 ~DecodesAs(ElementFieldsOf(f), ElementsOf(Lookup(input.json.m, f))[i])
            => decoded.k = "err"

\* C7: PocketItemHas and PocketItemStatus decode 0, 1, 2 to their variants
\* and fail with an error value on every integer from 3 on.
ClaimC7 ==
  input.ty \in {"PocketItemHas", "PocketItemStatus"} /\ decoded # Pending
  /\ input.json.t = "num" /\ input.json.n >= 0 =>
    IF input.json.n <= 2
    THEN decoded = [k |-> "ok",
                    v |-> IF input.ty = "PocketItemHas"
                          THEN PocketItemHasOf(input.json.n)
                          ELSE PocketItemStatusOf(input.json.n)]
    ELSE decoded.k = "err"

\* C8: a boolean-coded field decodes 0 to false and 1 to true, and any
\* other integer makes the decode fail.
ClaimC8 ==
  input.ty \in {"PocketAddedItem", "PocketItem", "PocketGetResponse"}
  /\ decoded # Pending =>
    \A f \in BoolFieldsOf(input.ty) :
      VariesOnly(f) /\ Lookup(input.json.m, f).t = "num" =>
        LET n == Lookup(input.json.m, f).n
        IN IF n \in {0, 1}
           THEN decoded.k = "ok" /\ decoded.v[f] = (n = 1)
           ELSE decoded.k = "err"

\* C9: in PocketItem and in PocketAddedItem, images and videos decode from
\* an empty array to the empty sequence, from an object with integer keys
\* to the sequence of its decoded values in enumeration order, and fail on
\* any other array or object.
ClaimC9 ==
  input.ty \in {"PocketAddedItem", "PocketItem"} /\ decoded # Pending =>
    \A f \in {"images", "videos"} :
      VariesOnly(f) /\ Lookup(input.json.m, f).t \in {"arr", "obj"} =>
        LET c == Lookup(input.json.m, f)
            elts == ElementsOf(c)
        IN IF c = JArr(<<>>)
           THEN decoded.k = "ok" /\ CollectionOf(input.ty, decoded.v[f]) = <<>>
           ELSE IF IsIndexed(c)
           THEN (\A i \in 1..Len(elts) : DecodesAs(ElementFieldsOf(f), elts[i]))
                => /\ decoded.k = "ok"
                   /\ CollectionOf(input.ty, decoded.v[f]) =
                        [i \in 1..Len(elts) |->
                           read_struct(ElementFieldsOf(f), Decoder_new(elts[i])).v]
           ELSE decoded.k = "err"

\* The fields of an action that its variant requires, and those it may
\* leave unset.
RequiredOf(cls) ==
  CASE cls = "PocketAddAction" -> {}
    [] cls \in {"PocketTagsAddAction", "PocketTagsReplaceAction"} ->
         {"item_id", "tags"}
    [] cls = "PocketTagRenameAction" -> {"item_id", "old_tag", "new_tag"}
    [] OTHER -> {"item_id"}
OptionalOf(cls) ==
  IF cls = "PocketAddAction"
  THEN {"item_id", "ref_id", "tags", "time", "title", "url"}
  ELSE {"time"}
DiscriminatorOf(cls) ==
  CASE cls = "PocketAddAction" -> "add"
    [] cls = "PocketArchiveAction" -> "archive"
    [] cls = "PocketReaddAction" -> "readd"
    [] cls = "PocketFavoriteAction" -> "favorite"
    [] cls = "PocketUnfavoriteAction" -> "unfavorite"
    [] cls = "PocketDeleteAction" -> "delete"
    [] cls = "PocketTagsAddAction" -> "tags_add"
    [] cls = "PocketTagsReplaceAction" -> "tags_replace"
    [] cls = "PocketTagsClearAction" -> "tags_clear"
    [] cls = "PocketTagRenameAction" -> "tag_rename"
\* The text of a sequence of characters, for the short names above.
RECURSIVE Chars(_)
Chars(s) == IF s = <<>> THEN "" ELSE Head(s) \o Chars(Tail(s))

\* C13: the encoding of an action has the key name, holding the
\* discriminator of its variant, one key for each field the variant
\* requires and for each optional field that is set, and no other key; no
\* key holds null.
ClaimC13 ==
  input.ty = "PocketAction" /\ decoded # Pending =>
    /\ decoded.k = "ok"
    /\ decoded.v.t = "obj"
    /\ Keys(decoded.v.m) =
         {"name"} \cup RequiredOf(input.action.cls)
         \cup {f \in OptionalOf(input.action.cls) : IsSome(input.action[f])}
    /\ Lookup(decoded.v.m, "name").t = "str"
    /\ Chars(Lookup(decoded.v.m, "name").s) = DiscriminatorOf(input.action.cls)
    /\ \A i \in 1..Len(decoded.v.m) : decoded.v.m[i][2] # JNull

\* C14: the actions array of the request holds the encodings of the
\* submitted actions in the order of submission, and an answer whose
\* action_results has another length than the batch fails to decode.
ClaimC14 ==
  input.ty = "PocketSendRequest" /\ decoded # Pending
  /\ IsSome(input.request.pocket.access_token) =>
    /\ decoded.request.k = "ok"
    /\ Lookup(decoded.request.v.m, "actions") =
         JArr([i \in 1..Len(input.request.actions) |->
                 json_encode(input.request.actions[i])])
    /\ LET results == Lookup(input.json.m, "action_results")
       IN results.t = "arr" /\ Len(results.a) # Len(input.request.actions)
            => decoded.response.k = "err"

\* The field of the body under wire name f, read as null when it is absent,
\* decodes on its own as kind.
FieldDecodes(j, f, kind) ==
  ReadKind(kind, Decoder_new(IF HasKey(j.m, f) THEN Lookup(j.m, f) ELSE JNull)).k
    = "ok"

====
